---- MODULE Spec2Model ----
(***************************************************************************)
(* The ensure-json repair pipeline (ensure-js/src/ensureJson.ts).          *)
(*                                                                         *)
(* A text is a sequence of characters, each character a one-character     *)
(* string.  The regular-expression rewrites of tryRepair are modelled by   *)
(* left-to-right scanners that reproduce the matches a backtracking regex  *)
(* engine finds; JSON.parse is modelled by a recursive-descent parser of   *)
(* the JSON grammar that yields either a value tree or the position of the *)
(* first offending character.                                              *)
(***************************************************************************)
EXTENDS Integers, Sequences, FiniteSets, TLC

(***************************************************************************)
(* Characters                                                              *)
(***************************************************************************)
LowerLetters ==
    {"a","b","c","d","e","f","g","h","i","j","k","l","m",
     "n","o","p","q","r","s","t","u","v","w","x","y","z"}

UpperLetters ==
    {"A","B","C","D","E","F","G","H","I","J","K","L","M",
     "N","O","P","Q","R","S","T","U","V","W","X","Y","Z"}

Digits == {"0","1","2","3","4","5","6","7","8","9"}

\* the backtick character U+0060, which a string of this notation cannot hold
Tick == "tick"

\* \s of a JavaScript regular expression: space, tab, line feed, carriage
\* return and form feed (the vertical tab and the spaces beyond ASCII are
\* left out)
IsSpace(c) == c \in {" ", "\t", "\n", "\r", "\f"}

\* the characters after which ^ and before which $ match under the m flag
IsLineTerminator(c) == c \in {"\n", "\r"}

\* [a-zA-Z0-9_]
IsWordChar(c) == c \in LowerLetters \cup UpperLetters \cup Digits \cup {"_"}

\* whitespace of the JSON grammar
IsJsonWs(c) == c \in {" ", "\t", "\n", "\r"}

\* characters JSON forbids unescaped inside a string (below U+0020)
IsControl(c) == c \in {"\t", "\n", "\r", "\f"}

IsHex(c) == c \in Digits \cup {"a","b","c","d","e","f","A","B","C","D","E","F"}

CharAt(t, i) == IF i >= 1 /\ i <= Len(t) THEN t[i] ELSE "EOF"

\* t[i..j] as a text (empty when j < i)
Slice(t, i, j) == SubSeq(t, i, j)

\* first index >= i whose character is not \s (Len(t)+1 when there is none)
RECURSIVE SkipSpace(_, _)
SkipSpace(t, i) ==
    IF i <= Len(t) /\ IsSpace(t[i]) THEN SkipSpace(t, i + 1) ELSE i

\* first index >= i whose character is not [a-zA-Z0-9_]
RECURSIVE SkipWord(_, _)
SkipWord(t, i) ==
    IF i <= Len(t) /\ IsWordChar(t[i]) THEN SkipWord(t, i + 1) ELSE i

\* first index >= i holding character c (Len(t)+1 when there is none)
RECURSIVE IndexFrom(_, _, _)
IndexFrom(t, c, i) ==
    IF i > Len(t) \/ t[i] = c THEN i ELSE IndexFrom(t, c, i + 1)

\* number of occurrences of c in t: (text.match(/c/g) || []).length
RECURSIVE CountFrom(_, _, _)
CountFrom(t, c, i) ==
    IF i > Len(t) THEN 0
    ELSE (IF t[i] = c THEN 1 ELSE 0) + CountFrom(t, c, i + 1)

Count(t, c) == CountFrom(t, c, 1)

(***************************************************************************)
(* Step 1a: text.replace(/^\s*FENCE(?:json)?|FENCE\s*$/gim, ""), where      *)
(* FENCE stands for three backtick characters                              *)
(***************************************************************************)
IsTicks(t, i) ==
    CharAt(t, i) = Tick /\ CharAt(t, i + 1) = Tick /\ CharAt(t, i + 2) = Tick

\* (?:json) under the i flag
IsJsonTag(t, i) ==
    /\ CharAt(t, i) \in {"j", "J"}
    /\ CharAt(t, i + 1) \in {"s", "S"}
    /\ CharAt(t, i + 2) \in {"o", "O"}
    /\ CharAt(t, i + 3) \in {"n", "N"}

\* ^ under the m flag
AtLineStart(t, i) == i = 1 \/ IsLineTerminator(CharAt(t, i - 1))

\* $ under the m flag
AtLineEnd(t, i) == i = Len(t) + 1 \/ IsLineTerminator(CharAt(t, i))

\* length of the match of ^\s*FENCE(?:json)? at i, 0 when it does not match
OpenFenceLen(t, i) ==
    LET j == SkipSpace(t, i) IN
    IF AtLineStart(t, i) /\ IsTicks(t, j)
    THEN (j - i) + 3 + (IF IsJsonTag(t, j + 3) THEN 4 ELSE 0)
    ELSE 0

\* greatest p in lo..hi with $ matching at p, 0 when there is none:
\* the greedy \s* gives back whitespace until $ matches
RECURSIVE LastLineEnd(_, _, _)
LastLineEnd(t, lo, hi) ==
    IF hi < lo THEN 0
    ELSE IF AtLineEnd(t, hi) THEN hi
    ELSE LastLineEnd(t, lo, hi - 1)

\* length of the match of FENCE\s*$ at i, 0 when it does not match
CloseFenceLen(t, i) ==
    IF ~IsTicks(t, i) THEN 0
    ELSE LET e == LastLineEnd(t, i + 3, SkipSpace(t, i + 3)) IN
         IF e = 0 THEN 0 ELSE e - i

\* the alternation tries its left branch first
FenceMatchLen(t, i) ==
    IF OpenFenceLen(t, i) > 0 THEN OpenFenceLen(t, i) ELSE CloseFenceLen(t, i)

RECURSIVE StripFencesFrom(_, _, _)
StripFencesFrom(t, i, acc) ==
    IF i > Len(t) THEN acc
    ELSE LET m == FenceMatchLen(t, i) IN
         IF m > 0 THEN StripFencesFrom(t, i + m, acc)
         ELSE StripFencesFrom(t, i + 1, Append(acc, t[i]))

StripFences(t) == StripFencesFrom(t, 1, <<>>)

(***************************************************************************)
(* Step 1b: slice to the first { or [                                      *)
(***************************************************************************)
\* Math.min over indexOf("{") and indexOf("["), Infinity as Len(t)+1
FirstBrace(t) ==
    LET a == IndexFrom(t, "{", 1)
        b == IndexFrom(t, "[", 1)
    IN IF a < b THEN a ELSE b

SliceToFirstBrace(t) ==
    IF FirstBrace(t) <= Len(t) THEN Slice(t, FirstBrace(t), Len(t)) ELSE t

(***************************************************************************)
(* Step 2: text.replace(/,\s*([}\]])/g, "$1")                              *)
(***************************************************************************)
RECURSIVE RemoveTrailingCommasFrom(_, _, _)
RemoveTrailingCommasFrom(t, i, acc) ==
    IF i > Len(t) THEN acc
    ELSE LET j == SkipSpace(t, i + 1) IN
         IF t[i] = "," /\ CharAt(t, j) \in {"}", "]"}
         THEN RemoveTrailingCommasFrom(t, j + 1, Append(acc, t[j]))
         ELSE RemoveTrailingCommasFrom(t, i + 1, Append(acc, t[i]))

\* a variant that matches ,} and ,] only when no whitespace stands between
RECURSIVE RemoveAdjacentCommasFrom(_, _, _)
RemoveAdjacentCommasFrom(t, i, acc) ==
    IF i > Len(t) THEN acc
    ELSE IF t[i] = "," /\ CharAt(t, i + 1) \in {"}", "]"}
         THEN RemoveAdjacentCommasFrom(t, i + 2, Append(acc, t[i + 1]))
         ELSE RemoveAdjacentCommasFrom(t, i + 1, Append(acc, t[i]))

RemoveAdjacentCommas(t) == RemoveAdjacentCommasFrom(t, 1, <<>>)

\* a variant that drops the closing delimiter together with the comma
RECURSIVE RemoveCommasAndClosersFrom(_, _, _)
RemoveCommasAndClosersFrom(t, i, acc) ==
    IF i > Len(t) THEN acc
    ELSE LET j == SkipSpace(t, i + 1) IN
         IF t[i] = "," /\ CharAt(t, j) \in {"}", "]"}
         THEN RemoveCommasAndClosersFrom(t, j + 1, acc)
         ELSE RemoveCommasAndClosersFrom(t, i + 1, Append(acc, t[i]))

RemoveCommasAndClosers(t) == RemoveCommasAndClosersFrom(t, 1, <<>>)

RemoveTrailingCommas(t) == RemoveTrailingCommasFrom(t, 1, <<>>)

(***************************************************************************)
(* Step 3: text.replace(/'([^']+)':/g, (_, k) => '"' + k + '":')           *)
(***************************************************************************)
RECURSIVE QuoteSingleKeysFrom(_, _, _)
QuoteSingleKeysFrom(t, i, acc) ==
    IF i > Len(t) THEN acc
    ELSE LET j == IndexFrom(t, "'", i + 1) IN
         IF t[i] = "'" /\ j > i + 1 /\ CharAt(t, j) = "'" /\ CharAt(t, j + 1) = ":"
         THEN QuoteSingleKeysFrom(t, j + 2,
                  acc \o <<"\"">> \o Slice(t, i + 1, j - 1) \o <<"\"", ":">>)
         ELSE QuoteSingleKeysFrom(t, i + 1, Append(acc, t[i]))

QuoteSingleKeys(t) == QuoteSingleKeysFrom(t, 1, <<>>)

(***************************************************************************)
(* Step 4 (ensureJson.ts line 73): a { or a comma, whitespace, a run of    *)
(* [a-zA-Z0-9_], whitespace and a colon become the { or comma with its     *)
(* whitespace, the run in double quotes, and the colon                     *)
(***************************************************************************)
RECURSIVE QuoteBareKeysFrom(_, _, _)
QuoteBareKeysFrom(t, i, acc) ==
    IF i > Len(t) THEN acc
    ELSE LET j == SkipSpace(t, i + 1)
             k == SkipWord(t, j)
             m == SkipSpace(t, k)
         IN IF t[i] \in {"{", ","} /\ k > j /\ CharAt(t, m) = ":"
            THEN QuoteBareKeysFrom(t, m + 1,
                     acc \o Slice(t, i, j - 1) \o <<"\"">> \o Slice(t, j, k - 1)
                         \o <<"\"", ":">>)
            ELSE QuoteBareKeysFrom(t, i + 1, Append(acc, t[i]))

QuoteBareKeys(t) == QuoteBareKeysFrom(t, 1, <<>>)

(***************************************************************************)
(* Step 5: balance braces, then brackets                                   *)
(***************************************************************************)
\* a variant that closes every unmatched brace
BalanceEveryBrace(t) ==
    t \o [i \in 1..(IF Count(t, "{") > Count(t, "}")
                    THEN Count(t, "{") - Count(t, "}") ELSE 0) |-> "}"]

BalanceBraces(t) ==
    IF Count(t, "{") = Count(t, "}") + 1 THEN Append(t, "}") ELSE t

BalanceBrackets(t) ==
    IF Count(t, "[") = Count(t, "]") + 1 THEN Append(t, "]") ELSE t

Balance(t) == BalanceBrackets(BalanceBraces(t))

\* the text tryRepair hands to JSON.parse
RepairText(t) ==
    Balance(QuoteBareKeys(QuoteSingleKeys(RemoveTrailingCommas(
        SliceToFirstBrace(StripFences(t))))))

(***************************************************************************)
(* JSON.parse: the JSON grammar (ECMA-404), by recursive descent.          *)
(*                                                                         *)
(* A value is a record of one shape for every kind:                        *)
(*   t     "null", "true", "false", "number", "string", "array", "object"  *)
(*   s     the characters of a string, the lexeme of a number              *)
(*   keys  the keys of an object, in insertion order                       *)
(*   kids  the elements of an array, the member values of an object        *)
(* A parse result is [ok, v, next, pos]: on success the value and the      *)
(* index after it, on failure the index of the unexpected character        *)
(* (Len(t)+1 for an unexpected end of input).                              *)
(***************************************************************************)
NoValue == [t |-> "none", s |-> <<>>, keys |-> <<>>, kids |-> <<>>]

MkScalar(kind, chars) == [t |-> kind, s |-> chars, keys |-> <<>>, kids |-> <<>>]

MkArray(elems) == [t |-> "array", s |-> <<>>, keys |-> <<>>, kids |-> elems]

MkObject(ks, vs) == [t |-> "object", s |-> <<>>, keys |-> ks, kids |-> vs]

Ok(v, next) == [ok |-> TRUE, v |-> v, next |-> next, pos |-> 0]

Err(pos) == [ok |-> FALSE, v |-> NoValue, next |-> 0, pos |-> pos]

RECURSIVE SkipJsonWs(_, _)
SkipJsonWs(t, i) ==
    IF i <= Len(t) /\ IsJsonWs(t[i]) THEN SkipJsonWs(t, i + 1) ELSE i

RECURSIVE SkipDigits(_, _)
SkipDigits(t, i) ==
    IF i <= Len(t) /\ t[i] \in Digits THEN SkipDigits(t, i + 1) ELSE i

\* the character an escape sequence \c stands for (backspace, which a string
\* of this notation cannot hold, is named by its escape)
Unescape(c) ==
    CASE c = "\"" -> "\""
      [] c = "\\" -> "\\"
      [] c = "/" -> "/"
      [] c = "b" -> "\\b"
      [] c = "f" -> "\f"
      [] c = "n" -> "\n"
      [] c = "r" -> "\r"
      [] c = "t" -> "\t"

IsSimpleEscape(c) == c \in {"\"", "\\", "/", "b", "f", "n", "r", "t"}

\* string: t[j..] follows the opening quote; acc holds the decoded characters.
\* A \uXXXX escape is kept as one character named by its four digits.
RECURSIVE ParseStringFrom(_, _, _)
ParseStringFrom(t, j, acc) ==
    IF j > Len(t) THEN Err(j)
    ELSE IF t[j] = "\"" THEN Ok(MkScalar("string", acc), j + 1)
    ELSE IF IsControl(t[j]) THEN Err(j)
    ELSE IF t[j] # "\\" THEN ParseStringFrom(t, j + 1, Append(acc, t[j]))
    ELSE IF IsSimpleEscape(CharAt(t, j + 1))
         THEN ParseStringFrom(t, j + 2, Append(acc, Unescape(t[j + 1])))
    ELSE IF CharAt(t, j + 1) # "u" THEN Err(j + 1)
    ELSE IF ~IsHex(CharAt(t, j + 2)) THEN Err(j + 2)
    ELSE IF ~IsHex(CharAt(t, j + 3)) THEN Err(j + 3)
    ELSE IF ~IsHex(CharAt(t, j + 4)) THEN Err(j + 4)
    ELSE IF ~IsHex(CharAt(t, j + 5)) THEN Err(j + 5)
    ELSE ParseStringFrom(t, j + 6,
             Append(acc, "\\u" \o t[j + 2] \o t[j + 3] \o t[j + 4] \o t[j + 5]))

\* number: -? (0 | [1-9][0-9]*) (. [0-9]+)? ([eE] [+-]? [0-9]+)?
ParseNumber(t, i) ==
    LET i1 == IF CharAt(t, i) = "-" THEN i + 1 ELSE i
        i2 == IF CharAt(t, i1) = "0" THEN i1 + 1 ELSE SkipDigits(t, i1)
        i3 == IF CharAt(t, i2) = "." THEN SkipDigits(t, i2 + 1) ELSE i2
        i4 == IF CharAt(t, i3) \in {"e", "E"}
              THEN (IF CharAt(t, i3 + 1) \in {"+", "-"} THEN i3 + 2 ELSE i3 + 1)
              ELSE i3
        i5 == IF i4 > i3 THEN SkipDigits(t, i4) ELSE i3
    IN IF CharAt(t, i1) \notin Digits THEN Err(i1)
       ELSE IF CharAt(t, i2) = "." /\ i3 = i2 + 1 THEN Err(i3)
       ELSE IF i4 > i3 /\ i5 = i4 THEN Err(i4)
       ELSE Ok(MkScalar("number", Slice(t, i, i5 - 1)), i5)

\* the literals true, false and null
LiteralKind(word) ==
    CASE word[1] = "t" -> "true" [] word[1] = "f" -> "false" [] OTHER -> "null"

RECURSIVE ParseLiteral(_, _, _, _)
ParseLiteral(t, i, word, k) ==
    IF k > Len(word) THEN Ok(MkScalar(LiteralKind(word), <<>>), i + Len(word))
    ELSE IF CharAt(t, i + k - 1) # word[k] THEN Err(i + k - 1)
    ELSE ParseLiteral(t, i, word, k + 1)

\* a later member with the same key replaces the value of the earlier one
PutMember(ks, vs, k, v) ==
    IF \E p \in 1..Len(ks) : ks[p] = k
    THEN [keys |-> ks,
          kids |-> [p \in 1..Len(vs) |-> IF ks[p] = k THEN v ELSE vs[p]]]
    ELSE [keys |-> Append(ks, k), kids |-> Append(vs, v)]

RECURSIVE ParseValue(_, _)
RECURSIVE ParseElements(_, _, _)
RECURSIVE ParseMembers(_, _, _, _)

\* t[j..] is at the start of an element of an array whose earlier elements are acc
ParseElements(t, j, acc) ==
    LET r == ParseValue(t, j)
        k == SkipJsonWs(t, r.next)
    IN IF ~r.ok THEN r
       ELSE IF CharAt(t, k) = ","
            THEN ParseElements(t, SkipJsonWs(t, k + 1), Append(acc, r.v))
       ELSE IF CharAt(t, k) = "]" THEN Ok(MkArray(Append(acc, r.v)), k + 1)
       ELSE Err(k)

\* t[j..] is at the start of a member of an object whose earlier members are ks, vs
ParseMembers(t, j, ks, vs) ==
    LET rk == ParseStringFrom(t, j + 1, <<>>)
        c  == SkipJsonWs(t, rk.next)
        rv == ParseValue(t, SkipJsonWs(t, c + 1))
        m  == SkipJsonWs(t, rv.next)
        o  == PutMember(ks, vs, rk.v.s, rv.v)
    IN IF CharAt(t, j) # "\"" THEN Err(j)
       ELSE IF ~rk.ok THEN rk
       ELSE IF CharAt(t, c) # ":" THEN Err(c)
       ELSE IF ~rv.ok THEN rv
       ELSE IF CharAt(t, m) = ","
            THEN ParseMembers(t, SkipJsonWs(t, m + 1), o.keys, o.kids)
       ELSE IF CharAt(t, m) = "}" THEN Ok(MkObject(o.keys, o.kids), m + 1)
       ELSE Err(m)

ParseValue(t, i) ==
    LET c == CharAt(t, i)
        j == SkipJsonWs(t, i + 1)
    IN CASE c = "{" -> IF CharAt(t, j) = "}" THEN Ok(MkObject(<<>>, <<>>), j + 1)
                       ELSE ParseMembers(t, j, <<>>, <<>>)
         [] c = "[" -> IF CharAt(t, j) = "]" THEN Ok(MkArray(<<>>), j + 1)
                       ELSE ParseElements(t, j, <<>>)
         [] c = "\"" -> ParseStringFrom(t, i + 1, <<>>)
         [] c = "t" -> ParseLiteral(t, i, <<"t","r","u","e">>, 1)
         [] c = "f" -> ParseLiteral(t, i, <<"f","a","l","s","e">>, 1)
         [] c = "n" -> ParseLiteral(t, i, <<"n","u","l","l">>, 1)
         [] c = "-" \/ c \in Digits -> ParseNumber(t, i)
         [] OTHER -> Err(i)

\* JSON.parse(t): one value, whitespace around it, and nothing else
JsonParse(t) ==
    LET r == ParseValue(t, SkipJsonWs(t, 1))
        e == SkipJsonWs(t, r.next)
    IN IF ~r.ok THEN r
       ELSE IF e <= Len(t) THEN Err(e)
       ELSE r

(***************************************************************************)
(* schema.safeParse: the caller's Zod schema, by name.                     *)
(*   "none"   no schema argument                                           *)
(*   "any"    z.any(): accepts every value and returns it                  *)
(*   "hasB"   z.object({ b: z.any() }) with b required: accepts an object  *)
(*            with a key b and returns it stripped of its other keys       *)
(*   "never"  z.never(): rejects every value                               *)
(***************************************************************************)
Schemas == {"none", "any", "hasB", "never"}

HasKey(v, k) == v.t = "object" /\ \E p \in 1..Len(v.keys) : v.keys[p] = k

Member(v, k) == v.kids[CHOOSE p \in 1..Len(v.keys) : v.keys[p] = k]

SafeParse(sch, v) ==
    CASE sch = "any" -> [success |-> TRUE, data |-> v]
      [] sch = "hasB" ->
            IF HasKey(v, <<"b">>)
            THEN [success |-> TRUE,
                  data |-> MkObject(<< <<"b">> >>, << Member(v, <<"b">>) >>)]
            ELSE [success |-> FALSE, data |-> NoValue]
      [] OTHER -> [success |-> FALSE, data |-> NoValue]

(***************************************************************************)
(* Outcomes of a call.                                                     *)
(* An error's message is the sequence of the parts it was built from.       *)
(***************************************************************************)
Pending ==
    [kind |-> "pending", value |-> NoValue, name |-> "", message |-> <<>>,
     raw |-> <<>>]

Returned(v) ==
    [kind |-> "value", value |-> v, name |-> "", message |-> <<>>, raw |-> <<>>]

\* a variant of the constructor that does not keep the raw text
JsonFixErrorWithoutRaw(msg, r) ==
    [kind |-> "error", value |-> NoValue, name |-> "JsonFixError",
     message |-> msg, raw |-> <<>>]

\* new JsonFixError(msg, r)
JsonFixError(msg, r) ==
    [kind |-> "error", value |-> NoValue, name |-> "JsonFixError",
     message |-> msg, raw |-> r]

RepairMessage == <<"Failed to repair and parse JSON">>

SchemaMessage == <<"Schema validation failed">>

\* the message of the SyntaxError JSON.parse throws for a failure at pos
Diagnostic(pos) == "Unexpected token in JSON at position " \o ToString(pos)

\* ensureJson(r, sch) as a function of its arguments: the value it returns
\* or the error it throws
EnsureJson(r, sch) ==
    LET direct == JsonParse(r)
        repaired == IF direct.ok THEN direct ELSE JsonParse(RepairText(r))
    IN IF ~repaired.ok THEN JsonFixError(RepairMessage, r)
       ELSE IF sch = "none" THEN Returned(repaired.v)
       ELSE LET result == SafeParse(sch, repaired.v) IN
            IF ~result.success THEN JsonFixError(SchemaMessage, r)
            ELSE Returned(result.data)

(***************************************************************************)
(* Inputs: the texts a caller may pass.                                    *)
(***************************************************************************)
MaxLen == 3

MaxNest == 2

MaxCut == 2

\* every text over the characters A of length at most n
RECURSIVE TextsOver(_, _)
TextsOver(A, n) ==
    IF n = 0 THEN {<<>>}
    ELSE LET P == TextsOver(A, n - 1) IN
         P \cup {Append(u, c) : u \in {x \in P : Len(x) = n - 1}, c \in A}

Sigma == {"{", "}", "[", "]", "\"", "'", ":", ",", "a", "1", " ", "\n"}

ShortTexts == TextsOver(Sigma, MaxLen)

\* whitespace-only texts
BlankTexts == TextsOver({" ", "\n", "\t"}, MaxLen + 1)

\* the texts the documentation and the examples use
ScenarioA ==
    <<Tick,Tick,Tick,"j","s","o","n","\n","{"," ","n","a","m","e",":"," ",
      "\"","A","l","i","c","e","\"",","," ","a","g","e",":"," ","4","2",",",
      " ","}","\n",Tick,Tick,Tick>>

ScenarioB ==
    <<"{","\"","u","s","e","r","s","\"",":"," ","[","{","\"","n","a","m",
      "e","\"",":"," ","\"","A","l","i","c","e","\"","}",","," ","{","\"",
      "n","a","m","e","\"",":"," ","\"","B","o","b","\"">>

ScenarioC ==
    <<"H","e","l","l","o"," ","w","o","r","l","d">>

ScenarioE ==
    <<"{","\"","a","\"",":","1","}">>

LiteralExample ==
    <<"{","\"","m","s","g","\"",":"," ","\"","d","o","n","'","t",":"," ",
      "s","t","o","p",","," ","n","o","w","\"","}">>

MixedQuotes ==
    <<"{","n","a","m","e",":"," ","'","D","i","a","n","a","'",","," ","'",
      "a","g","e","'",":"," ","2","8",","," ","\"","c","i","t","y","\"",":",
      " ","'","L","o","n","d","o","n","'","}">>

TwoDocuments ==
    <<"{","\"","a","\"",":","1","}"," ","{","\"","b","\"",":","2","}">>

Chatty ==
    <<"H","e","r","e"," ","i","s"," ","t","h","e"," ","J","S","O","N",":",
      "\n",Tick,Tick,Tick,"j","s","o","n","\n","{","\"","b","\"",":"," ",
      "[","1",","," ","2",",","]",",","}","\n",Tick,Tick,Tick,"\n","H","o",
      "p","e"," ","t","h","a","t"," ","h","e","l","p","s","!">>

\* a quoted string with a line break in it, which no strict parser accepts
BrokenString == <<"\"", "a", ",", "\n", "}", "\"">>

\* two arrays whose strings hold an apostrophe each, the second before a colon
QuotedAcross ==
    <<"[", "\"", "x", "'", ",", "\"", "]", " ",
      "[", "\"", ",", "'", ":", "y", "\"", "]">>

\* an object cut short after a string that holds a bracket
BracketInString == <<"{", "\"", "a", "\"", ":", " ", "\"", "[", "\"">>

\* an object cut short inside its inner object
NestedCut ==
    <<"{", "\"", "a", "\"", ":", " ", "{", "\"", "b", "\"", ":", " ", "1">>

\* an object cut short inside its array
ArrayCut == <<"{", "\"", "a", "\"", ":", " ", "[", "1", ",", " ", "2">>

\* an array with two commas before its closer
DoubleComma == <<"[", "1", ",", ",", "]">>

\* an array with six fence characters at the start of its second line
SixTicks ==
    <<"[", "1", ",", "\n", Tick, Tick, Tick, Tick, Tick, Tick, "2", "]">>

Examples ==
    {ScenarioA, ScenarioB, ScenarioC, ScenarioE, LiteralExample, MixedQuotes,
     TwoDocuments, Chatty, BrokenString, QuotedAcross, BracketInString,
     NestedCut, ArrayCut, DoubleComma, SixTicks}

Quoted(b) == <<"\"">> \o b \o <<"\"">>

\* bodies of string literals that look like the syntax the rewrites match
StrBodies ==
    { <<"x">>,
      <<",", "}">>,
      <<",", " ", "]">>,
      <<"'", "a", "'", ":">>,
      <<",", "a", ":">>,
      <<"{">>,
      <<"]">>,
      <<"\\", "\"">>,
      <<Tick, Tick, Tick>> }

Scalars ==
    {<<"1">>, <<"t", "r", "u", "e">>, <<"n", "u", "l", "l">>}
        \cup {Quoted(b) : b \in StrBodies}

\* JSON containers around a text v
StrictForms(v) ==
    { <<"[">> \o v \o <<"]">>,
      <<"[">> \o v \o <<",", " ", "1", "]">>,
      <<"{", "\"", "a", "\"", ":">> \o v \o <<"}">>,
      <<"{", "\"", "a", "\"", ":", " ">> \o v
          \o <<",", " ", "\"", "b", "\"", ":", " ", "1", "}">> }

\* almost-JSON containers around a text v: trailing commas, bare keys,
\* single-quoted keys
LooseForms(v) ==
    { <<"[">> \o v \o <<",", "]">>,
      <<"{", "a", ":">> \o v \o <<"}">>,
      <<"{", "'", "a", "'", ":", " ">> \o v \o <<"}">>,
      <<"{", "\"", "b", "\"", ":", " ">> \o v \o <<",", " ", "}">> }

\* texts with at most n containers around a scalar
RECURSIVE Docs(_)
Docs(n) ==
    IF n = 0 THEN Scalars
    ELSE LET P == Docs(n - 1) IN
         P \cup UNION {StrictForms(v) \cup LooseForms(v) : v \in P}

IsCloser(c) == c \in {"}", "]"}

\* the last n characters of t are closing delimiters
EndsWithClosers(t, n) ==
    n <= Len(t) /\ \A i \in (Len(t) - n + 1)..Len(t) : IsCloser(t[i])

\* valid JSON object and array texts cut short by their last 1..MaxCut closers
ValidContainers ==
    {d \in Docs(MaxNest) : d[1] \in {"{", "["} /\ JsonParse(d).ok}

Truncated ==
    {Slice(q[1], 1, Len(q[1]) - q[2]) :
        q \in {p \in ValidContainers \X (1..MaxCut) : EndsWithClosers(p[1], p[2])}}

OpenFence == <<Tick, Tick, Tick, "j", "s", "o", "n", "\n">>

CloseFence == <<"\n", Tick, Tick, Tick>>

\* a text inside a fence, with or without prose before it
Fenced ==
    UNION {{OpenFence \o d \o CloseFence,
            <<"O", "K", ":", " ", Tick, Tick, Tick>> \o d \o <<Tick, Tick, Tick>>} :
           d \in Docs(MaxNest - 1)}

\* fenced object literals with bare keys and a trailing comma
KeyNames == {<<"n", "a", "m", "e">>, <<"a", "g", "e">>, <<"_", "7">>}

LiteralValues ==
    { [lex |-> <<"4", "2">>, val |-> MkScalar("number", <<"4", "2">>)],
      [lex |-> <<"t", "r", "u", "e">>, val |-> MkScalar("true", <<>>)],
      [lex |-> <<"n", "u", "l", "l">>, val |-> MkScalar("null", <<>>)],
      [lex |-> Quoted(<<"A", "l", "i", "c", "e">>),
       val |-> MkScalar("string", <<"A", "l", "i", "c", "e">>)],
      [lex |-> Quoted(<<"a", " ", "b">>),
       val |-> MkScalar("string", <<"a", " ", "b">>)],
      [lex |-> Quoted(<<Tick, Tick, Tick>>),
       val |-> MkScalar("string", <<Tick, Tick, Tick>>)] }

Entries == KeyNames \X LiteralValues

EntryLists == {<<e>> : e \in Entries} \cup {<<e, f>> : e \in Entries, f \in Entries}

\* a layout: what stands after {, after a colon, between entries, before }
Layouts ==
    { [open |-> <<" ">>, colon |-> <<" ">>, sep |-> <<",", " ">>,
       close |-> <<",", " ">>],
      [open |-> <<"\n", " ", " ">>, colon |-> <<" ">>, sep |-> <<",", "\n", " ", " ">>,
       close |-> <<",", "\n">>],
      [open |-> <<>>, colon |-> <<>>, sep |-> <<",">>, close |-> <<",">>] }

FenceOpeners ==
    { <<Tick, Tick, Tick, "j", "s", "o", "n", "\n">>,
      <<Tick, Tick, Tick, "\n">> }

RenderEntry(e, lay) == e[1] \o <<":">> \o lay.colon \o e[2].lex

RenderLiteral(es, lay) ==
    <<"{">> \o lay.open \o RenderEntry(es[1], lay)
        \o (IF Len(es) > 1 THEN lay.sep \o RenderEntry(es[2], lay) ELSE <<>>)
        \o lay.close \o <<"}">>

\* the object that maps each key of es to its value
ObjectOf(es) ==
    LET one == PutMember(<<>>, <<>>, es[1][1], es[1][2].val)
        two == IF Len(es) > 1
               THEN PutMember(one.keys, one.kids, es[2][1], es[2][2].val)
               ELSE one
    IN MkObject(two.keys, two.kids)

FencedLiterals ==
    { [text |-> f \o RenderLiteral(es, lay) \o CloseFence, want |-> ObjectOf(es)] :
        f \in FenceOpeners, es \in EntryLists, lay \in Layouts }

\* prose without a brace or bracket, put before a text
ProsePrefixes == {<<"H", "i", ":", " ">>, <<"1", " ">>}

Prefixed == {p \o d : p \in ProsePrefixes, d \in Docs(MaxNest - 1)}

\* prose put after a text, with and without the fence around the text
TrailingProse == <<"\n", "O", "K", "!">>

Suffixed ==
    UNION {{d \o TrailingProse, OpenFence \o d \o CloseFence \o TrailingProse} :
           d \in Docs(MaxNest - 1)}

\* two complete JSON texts with white space between them
TopValues == {d \in Docs(1) : JsonParse(d).ok}

Pairs == {a \o <<" ">> \o b : a \in TopValues, b \in TopValues}

Inputs ==
    ShortTexts \cup BlankTexts \cup Examples \cup Docs(MaxNest)
        \cup Truncated \cup Fenced \cup {c.text : c \in FencedLiterals}
        \cup Prefixed \cup Suffixed \cup Pairs

Apis == {"ensureJson", "ensureJsonAsync"}

(***************************************************************************)
(* One call of ensureJson(raw, schema) or ensureJsonAsync(raw, schema)     *)
(***************************************************************************)
VARIABLES
    raw,        \* the text the caller passed
    schema,     \* the schema the caller passed ("none" when omitted)
    api,        \* the entry point called
    pc,         \* the statement the call is at
    text,       \* the local variable text of tryRepair
    parsed,     \* the local variable parsed of ensureJson
    caught,     \* the position of the SyntaxError caught at line 86, 0 if none
    outcome,    \* what the call returned or threw
    promise     \* the state of the promise ensureJsonAsync returns

\* The process that runs cli.ts, when there is one
VARIABLES
    argv,       \* process.argv after the script name
    stdin,      \* the events process.stdin has yet to emit, in order
    listeners,  \* the events of process.stdin that have a listener
    data,       \* the local variable data of readStdin
    input,      \* the local variable input of main
    cliPc,      \* where main is
    calls,      \* the number of calls of ensureJson main has made
    stdout,     \* what was written to process.stdout, in order
    stderr,     \* what was written to process.stderr, in order
    exits       \* the codes process.exit was called with, in order

cliVars ==
    <<argv, stdin, listeners, data, input, cliPc, calls, stdout, stderr, exits>>

\* The callers of the library, when the calls of several are followed
VARIABLES
    tasks,      \* each caller: its arguments, how far it is, what it got
    running     \* the caller whose call is executing, "none" between calls

taskVars == <<tasks, running>>

vars ==
    <<raw, schema, api, pc, text, parsed, caught, outcome, promise, cliVars,
      taskVars>>

\* one call, followed alone
NoTasks == tasks = <<>> /\ running = "none"

\* no process: the library is called directly
NoProcess ==
    /\ argv = <<>>
    /\ stdin = <<>>
    /\ listeners = {}
    /\ data = <<>>
    /\ input = <<>>
    /\ cliPc = "none"
    /\ calls = 0
    /\ stdout = <<>>
    /\ stderr = <<>>
    /\ exits = <<>>

Init ==
    /\ raw \in Inputs
    /\ schema \in Schemas
    /\ api \in Apis
    /\ pc = "parse"
    /\ text = <<>>
    /\ parsed = NoValue
    /\ caught = 0
    /\ outcome = Pending
    /\ promise = IF api = "ensureJsonAsync" THEN "pending" ELSE "none"
    /\ NoProcess
    /\ NoTasks

\* a variant in which a failure leaves the function as a synchronous throw
\* and no promise is returned
FinishThrowing(o) ==
    /\ outcome' = o
    /\ pc' = "done"
    /\ promise' = IF api = "ensureJsonAsync" /\ o.kind = "value"
                  THEN "fulfilled" ELSE "none"

\* a variant in which the promise of an async call is left to settle later
FinishUnsettled(o) ==
    /\ outcome' = o
    /\ pc' = "done"
    /\ promise' = IF api = "ensureJson" THEN "none" ELSE "pending"

\* the call ends with outcome o; an async function settles its promise with
\* what its body returned or threw
Finish(o) ==
    /\ outcome' = o
    /\ pc' = "done"
    /\ promise' = IF api = "ensureJson" THEN "none"
                  ELSE IF o.kind = "value" THEN "fulfilled" ELSE "rejected"

\* a variant that hands every text to tryRepair
AlwaysRepair ==
    /\ pc = "parse"
    /\ text' = raw
    /\ pc' = "fence"
    /\ UNCHANGED <<raw, schema, api, parsed, caught, outcome, promise, cliVars,
                   taskVars>>

\* lines 24-28: try { parsed = JSON.parse(raw) } catch { parsed = tryRepair(raw) }
TryDirectParse ==
    /\ pc = "parse"
    /\ LET r == JsonParse(raw) IN
       IF r.ok
       THEN /\ parsed' = r.v
            /\ pc' = "validate"
            /\ text' = text
       ELSE /\ text' = raw
            /\ pc' = "fence"
            /\ parsed' = parsed
    /\ UNCHANGED <<raw, schema, api, caught, outcome, promise, cliVars,
                   taskVars>>

\* line 57
TrimFences ==
    /\ pc = "fence"
    /\ text' = StripFences(text)
    /\ pc' = "slice"
    /\ UNCHANGED <<raw, schema, api, parsed, caught, outcome, promise, cliVars,
                   taskVars>>

\* lines 58-64
SliceFirstBrace ==
    /\ pc = "slice"
    /\ text' = SliceToFirstBrace(text)
    /\ pc' = "commas"
    /\ UNCHANGED <<raw, schema, api, parsed, caught, outcome, promise, cliVars,
                   taskVars>>

\* line 67
TrailingCommas ==
    /\ pc = "commas"
    /\ text' = RemoveTrailingCommas(text)
    /\ pc' = "squote"
    /\ UNCHANGED <<raw, schema, api, parsed, caught, outcome, promise, cliVars,
                   taskVars>>

\* line 70
SingleQuotedKeys ==
    /\ pc = "squote"
    /\ text' = QuoteSingleKeys(text)
    /\ pc' = "barekeys"
    /\ UNCHANGED <<raw, schema, api, parsed, caught, outcome, promise, cliVars,
                   taskVars>>

\* line 73
BareKeys ==
    /\ pc = "barekeys"
    /\ text' = QuoteBareKeys(text)
    /\ pc' = "balance"
    /\ UNCHANGED <<raw, schema, api, parsed, caught, outcome, promise, cliVars,
                   taskVars>>

\* lines 76-81
BalanceDelimiters ==
    /\ pc = "balance"
    /\ text' = Balance(text)
    /\ pc' = "reparse"
    /\ UNCHANGED <<raw, schema, api, parsed, caught, outcome, promise, cliVars,
                   taskVars>>

\* a variant that reports the rewritten text
RepairFailureOfText(pos) == JsonFixError(RepairMessage, text)

\* a variant that gives null in place of a failure
RepairGivesNull(pos) == Returned(MkScalar("null", <<>>))

\* a variant that reports a failed repair with the validation message
RepairFailureAsSchema(pos) == JsonFixError(SchemaMessage, raw)

\* what tryRepair throws at line 87 when JSON.parse(text) failed at pos
RepairFailure(pos) == JsonFixError(RepairMessage, raw)

\* a variant that starts another repair pass when the parse fails
ParseRepairedWithRetry ==
    /\ pc = "reparse"
    /\ LET r == JsonParse(text) IN
       IF r.ok
       THEN /\ parsed' = r.v
            /\ pc' = "validate"
            /\ UNCHANGED <<caught, outcome, promise>>
       ELSE /\ caught' = r.pos
            /\ pc' = "fence"
            /\ UNCHANGED <<parsed, outcome, promise>>
    /\ UNCHANGED <<raw, schema, api, text, cliVars,
                   taskVars>>

\* lines 84-88
ParseRepaired ==
    /\ pc = "reparse"
    /\ LET r == JsonParse(text) IN
       IF r.ok
       THEN /\ parsed' = r.v
            /\ pc' = "validate"
            /\ UNCHANGED <<caught, outcome, promise>>
       ELSE /\ caught' = r.pos
            /\ Finish(RepairFailure(r.pos))
            /\ parsed' = parsed
    /\ UNCHANGED <<raw, schema, api, text, cliVars,
                   taskVars>>

\* a variant that rethrows the validator's own error
ValidationFailureOfZod ==
    [kind |-> "error", value |-> NoValue, name |-> "ZodError",
     message |-> <<"issues">>, raw |-> <<>>]

\* what ensureJson throws at line 32 when safeParse did not succeed
ValidationFailure == JsonFixError(SchemaMessage, raw)

\* a variant that returns the parsed value even when a schema accepted it
ValidateReturningParsed ==
    /\ pc = "validate"
    /\ IF schema = "none"
       THEN Finish(Returned(parsed))
       ELSE LET result == SafeParse(schema, parsed) IN
            IF ~result.success
            THEN Finish(ValidationFailure)
            ELSE Finish(Returned(parsed))
    /\ UNCHANGED <<raw, schema, api, text, parsed, caught, cliVars,
                   taskVars>>

\* lines 29-36
Validate ==
    /\ pc = "validate"
    /\ IF schema = "none"
       THEN Finish(Returned(parsed))
       ELSE LET result == SafeParse(schema, parsed) IN
            IF ~result.success
            THEN Finish(ValidationFailure)
            ELSE Finish(Returned(result.data))
    /\ UNCHANGED <<raw, schema, api, text, parsed, caught, cliVars,
                   taskVars>>

Next ==
    \/ TryDirectParse
    \/ TrimFences
    \/ SliceFirstBrace
    \/ TrailingCommas
    \/ SingleQuotedKeys
    \/ BareKeys
    \/ BalanceDelimiters
    \/ ParseRepaired
    \/ Validate

Spec == Init /\ [][Next]_vars

(***************************************************************************)
(* JSON.stringify(v, null, 2)                                              *)
(* Numbers print as their lexeme, which is how JavaScript prints the       *)
(* integers the texts below hold (-0 prints as 0); keys print in insertion *)
(* order, which is the order of keys that are not array indices.           *)
(***************************************************************************)
Indent(n) == [i \in 1..n |-> " "]

\* the escape JSON.stringify writes for the character c of a string
EscapeChar(c) ==
    CASE c = "\"" -> <<"\\", "\"">>
      [] c = "\\" -> <<"\\", "\\">>
      [] c = "\n" -> <<"\\", "n">>
      [] c = "\r" -> <<"\\", "r">>
      [] c = "\t" -> <<"\\", "t">>
      [] c = "\f" -> <<"\\", "f">>
      [] c = "\\b" -> <<"\\", "b">>
      [] OTHER -> <<c>>

RECURSIVE EscapeFrom(_, _)
EscapeFrom(cs, i) ==
    IF i > Len(cs) THEN <<>> ELSE EscapeChar(cs[i]) \o EscapeFrom(cs, i + 1)

QuoteString(cs) == <<"\"">> \o EscapeFrom(cs, 1) \o <<"\"">>

NumberText(lex) == IF lex = <<"-", "0">> THEN <<"0">> ELSE lex

RECURSIVE Stringify(_, _)
RECURSIVE StringifyItems(_, _, _)

\* the items of v from the i-th on, one per line at indentation ind
StringifyItems(v, i, ind) ==
    LET key == IF v.t = "object" THEN QuoteString(v.keys[i]) \o <<":", " ">>
               ELSE <<>>
        item == Indent(ind) \o key \o Stringify(v.kids[i], ind)
    IN IF i = Len(v.kids) THEN item
       ELSE item \o <<",", "\n">> \o StringifyItems(v, i + 1, ind)

Stringify(v, ind) ==
    CASE v.t = "string" -> QuoteString(v.s)
      [] v.t = "number" -> NumberText(v.s)
      [] v.t = "true" -> <<"t", "r", "u", "e">>
      [] v.t = "false" -> <<"f", "a", "l", "s", "e">>
      [] v.t = "null" -> <<"n", "u", "l", "l">>
      [] v.t \in {"array", "object"} ->
            LET open == IF v.t = "array" THEN <<"[">> ELSE <<"{">>
                close == IF v.t = "array" THEN <<"]">> ELSE <<"}">>
            IN IF Len(v.kids) = 0 THEN open \o close
               ELSE open \o <<"\n">> \o StringifyItems(v, 1, ind + 2)
                        \o <<"\n">> \o Indent(ind) \o close

(***************************************************************************)
(* cli.ts: what the process is started with                                *)
(***************************************************************************)
MaxChunks == 2

Argvs == {<<>>, <<"--help">>, <<"-v">>, <<"-v", "--help">>}

\* pieces of text that arrive as chunks on standard input
ChunkTexts ==
    { <<"{", "\"", "a", "\"", ":">>,
      <<"[", "1", ",", "2", "]", "}">>,
      <<"[", "\"", "x", "\\", "\\", "y", "\"", ",", " ", "[", "]", "]">>,
      <<"{", "b", ":", " ", "1", ",", "}">>,
      <<"o", "o", "p", "s">>,
      <<"\n">> }

ChunkRuns == UNION {[1..n -> ChunkTexts] : n \in 0..MaxChunks}

DataEvent(c) == [ev |-> "data", chunk |-> c]

EndEvent == [ev |-> "end", chunk |-> <<>>]

ErrorEvent == [ev |-> "error", chunk |-> <<>>]

\* standard input emits its chunks and then ends or fails
StdinRuns ==
    {[i \in 1..Len(cs) |-> DataEvent(cs[i])] \o <<e>> :
        cs \in ChunkRuns, e \in {EndEvent, ErrorEvent}}

HasHelp(args) == \E i \in 1..Len(args) : args[i] = "--help"

\* the text console.log writes at lines 16-18
Usage ==
    <<"Usage: json-fix [--help]", "\n",
      "Reads JSON from stdin, repairs it, and writes valid JSON to stdout.", "\n",
      "Exits 0 on success, 1 on failure.", "\n">>

InitCli ==
    /\ argv \in Argvs
    /\ stdin \in StdinRuns
    /\ listeners = {}
    /\ data = <<>>
    /\ input = <<>>
    /\ cliPc = "main"
    /\ calls = 0
    /\ stdout = <<>>
    /\ stderr = <<>>
    /\ exits = <<>>
    /\ raw = <<>>
    /\ schema = "none"
    /\ api = "ensureJson"
    /\ pc = "idle"
    /\ text = <<>>
    /\ parsed = NoValue
    /\ caught = 0
    /\ outcome = Pending
    /\ promise = "none"
    /\ NoTasks

\* the locals of a call of ensureJson, which the process does not see
callLocals == <<schema, api, pc, text, parsed, caught, promise>>

\* process.exit(code): the process ends
Exit(code) ==
    /\ exits' = Append(exits, code)
    /\ cliPc' = "exited"

\* a variant of the help branch that does not end the process
ShowHelpAndGoOn ==
    /\ cliPc = "main"
    /\ HasHelp(argv)
    /\ stdout' = Append(stdout, Usage)
    /\ listeners' = {"data", "end", "error"}
    /\ cliPc' = "reading"
    /\ UNCHANGED <<argv, stdin, data, input, calls, stderr, exits, raw, outcome,
                   callLocals, taskVars>>

\* lines 15-20: --help
ShowHelp ==
    /\ cliPc = "main"
    /\ HasHelp(argv)
    /\ stdout' = Append(stdout, Usage)
    /\ Exit(0)
    /\ UNCHANGED <<argv, stdin, listeners, data, input, calls, stderr, raw,
                   outcome, callLocals, taskVars>>

\* lines 23 and 4-12: readStdin() attaches its listeners, main awaits
ReadStdin ==
    /\ cliPc = "main"
    /\ ~HasHelp(argv)
    /\ data' = <<>>
    /\ listeners' = {"data", "end", "error"}
    /\ cliPc' = "reading"
    /\ UNCHANGED <<argv, stdin, input, calls, stdout, stderr, exits, raw,
                   outcome, callLocals, taskVars>>

\* a variant of the "data" listener that puts the new chunk first
OnDataPrepend ==
    /\ cliPc = "reading"
    /\ "data" \in listeners
    /\ stdin # <<>> /\ Head(stdin).ev = "data"
    /\ data' = Head(stdin).chunk \o data
    /\ stdin' = Tail(stdin)
    /\ UNCHANGED <<argv, listeners, input, cliPc, calls, stdout, stderr, exits,
                   raw, outcome, callLocals, taskVars>>

\* line 8: on "data"
OnData ==
    /\ cliPc = "reading"
    /\ "data" \in listeners
    /\ stdin # <<>> /\ Head(stdin).ev = "data"
    /\ data' = data \o Head(stdin).chunk
    /\ stdin' = Tail(stdin)
    /\ UNCHANGED <<argv, listeners, input, cliPc, calls, stdout, stderr, exits,
                   raw, outcome, callLocals, taskVars>>

\* line 9: on "end", resolve(data)
OnEnd ==
    /\ cliPc = "reading"
    /\ "end" \in listeners
    /\ stdin # <<>> /\ Head(stdin).ev = "end"
    /\ input' = data
    /\ stdin' = Tail(stdin)
    /\ cliPc' = "resolved"
    /\ UNCHANGED <<argv, listeners, data, calls, stdout, stderr, exits, raw,
                   outcome, callLocals, taskVars>>

\* line 10: on "error", reject
OnError ==
    /\ cliPc = "reading"
    /\ "error" \in listeners
    /\ stdin # <<>> /\ Head(stdin).ev = "error"
    /\ stdin' = Tail(stdin)
    /\ cliPc' = "rejected"
    /\ UNCHANGED <<argv, listeners, data, input, calls, stdout, stderr, exits,
                   raw, outcome, callLocals, taskVars>>

\* lines 25-26: the result is written and the process ends with 0
WriteResult(v) ==
    /\ stdout' = Append(stdout, Stringify(v, 0) \o <<"\n">>)
    /\ stderr' = stderr
    /\ Exit(0)

\* a variant that reports a failure on standard output, with code 0
WriteFailureToStdout(line) ==
    /\ stdout' = Append(stdout, line)
    /\ stderr' = stderr
    /\ Exit(0)

\* lines 27-34: the failure is written to standard error, the process ends
\* with 1
WriteFailure(line) ==
    /\ stderr' = Append(stderr, line)
    /\ stdout' = stdout
    /\ Exit(1)

\* line 24: after the await, main calls ensureJson(input)
CallEnsureJson ==
    /\ cliPc = "resolved"
    /\ raw' = input
    /\ schema' = "none"
    /\ api' = "ensureJson"
    /\ pc' = "parse"
    /\ text' = <<>>
    /\ parsed' = NoValue
    /\ caught' = 0
    /\ outcome' = Pending
    /\ promise' = "none"
    /\ calls' = calls + 1
    /\ cliPc' = "calling"
    /\ UNCHANGED <<argv, stdin, listeners, data, input, stdout, stderr, exits,
                   taskVars>>

\* lines 25-26: ensureJson returned
PrintResult ==
    /\ cliPc = "calling"
    /\ pc = "done"
    /\ outcome.kind = "value"
    /\ WriteResult(outcome.value)
    /\ UNCHANGED <<argv, stdin, listeners, data, input, calls, raw, outcome,
                   callLocals, taskVars>>

\* lines 27-29 and 33: ensureJson threw a JsonFixError
ReportJsonFixError ==
    /\ cliPc = "calling"
    /\ pc = "done"
    /\ outcome.kind = "error"
    /\ outcome.name = "JsonFixError"
    /\ WriteFailure(<<"JsonFixError: ">> \o outcome.message \o <<"\n">>)
    /\ UNCHANGED <<argv, stdin, listeners, data, input, calls, raw, outcome,
                   callLocals, taskVars>>

\* lines 27 and 30-33: the rejection of readStdin is caught
ReportReadError ==
    /\ cliPc = "rejected"
    /\ WriteFailure(<<"Error: ", "stdin", "\n">>)
    /\ UNCHANGED <<argv, stdin, listeners, data, input, calls, raw, outcome,
                   callLocals, taskVars>>

NextCli ==
    \/ ShowHelp
    \/ ReadStdin
    \/ OnData
    \/ OnEnd
    \/ OnError
    \/ CallEnsureJson
    \/ Next
    \/ PrintResult
    \/ ReportJsonFixError
    \/ ReportReadError

SpecCli == InitCli /\ [][NextCli]_vars

(***************************************************************************)
(* Several callers of the library in one JavaScript thread.  A caller      *)
(* calls ensureJson(raw, schema), or awaits ensureJsonAsync(raw, schema);  *)
(* neither function awaits anything, so a call runs from its first         *)
(* statement to its last before any other caller runs, and the caller that *)
(* awaits is resumed in a later turn.                                      *)
(***************************************************************************)
TaskIds == {"t1", "t2"}

CallTexts ==
    {ScenarioE, DoubleComma, ArrayCut, <<"{", "b", ":", "1", ",", "}">>}

CallSchemas == {"none", "hasB"}

\* a caller that has not called yet
NewTask(r, sch, a) ==
    [raw |-> r, schema |-> sch, api |-> a, state |-> "ready",
     outcome |-> Pending, promise |-> "none"]

NewTasks == {NewTask(r, sch, a) : r \in CallTexts, sch \in CallSchemas, a \in Apis}

InitCalls ==
    /\ tasks \in [TaskIds -> NewTasks]
    /\ running = "none"
    /\ raw = <<>>
    /\ schema = "none"
    /\ api = "ensureJson"
    /\ pc = "idle"
    /\ text = <<>>
    /\ parsed = NoValue
    /\ caught = 0
    /\ outcome = Pending
    /\ promise = "none"
    /\ NoProcess

\* a variant that answers from the last call's result when there is one
InvokeMemoized(i) ==
    /\ pc = "idle"
    /\ tasks[i].state = "ready"
    /\ raw' = tasks[i].raw
    /\ schema' = tasks[i].schema
    /\ api' = tasks[i].api
    /\ IF outcome = Pending
       THEN /\ pc' = "parse"
            /\ outcome' = Pending
            /\ promise' = IF tasks[i].api = "ensureJsonAsync" THEN "pending"
                          ELSE "none"
       ELSE /\ pc' = "done"
            /\ outcome' = outcome
            /\ promise' = IF tasks[i].api = "ensureJson" THEN "none"
                          ELSE IF outcome.kind = "value" THEN "fulfilled"
                          ELSE "rejected"
    /\ text' = <<>>
    /\ parsed' = NoValue
    /\ caught' = 0
    /\ running' = i
    /\ tasks' = [tasks EXCEPT ![i].state = "calling"]
    /\ UNCHANGED cliVars

\* caller i calls: the parameters and locals of the call are created
Invoke(i) ==
    /\ pc = "idle"
    /\ tasks[i].state = "ready"
    /\ raw' = tasks[i].raw
    /\ schema' = tasks[i].schema
    /\ api' = tasks[i].api
    /\ pc' = "parse"
    /\ text' = <<>>
    /\ parsed' = NoValue
    /\ caught' = 0
    /\ outcome' = Pending
    /\ promise' = IF tasks[i].api = "ensureJsonAsync" THEN "pending" ELSE "none"
    /\ running' = i
    /\ tasks' = [tasks EXCEPT ![i].state = "calling"]
    /\ UNCHANGED cliVars

\* the call returns to its caller: a value or an error at once from
\* ensureJson, a promise from ensureJsonAsync
Return ==
    /\ pc = "done"
    /\ running \in TaskIds
    /\ tasks' = [tasks EXCEPT ![running] =
                    [@ EXCEPT !.state = IF api = "ensureJson" THEN "resumed"
                                        ELSE "awaiting",
                              !.outcome = outcome,
                              !.promise = promise]]
    /\ running' = "none"
    /\ pc' = "idle"
    /\ UNCHANGED <<raw, schema, api, text, parsed, caught, outcome, promise,
                   cliVars>>

\* the caller that awaited the promise goes on with what it settled with
Resume(i) ==
    /\ pc = "idle"
    /\ tasks[i].state = "awaiting"
    /\ tasks[i].promise \in {"fulfilled", "rejected"}
    /\ tasks' = [tasks EXCEPT ![i].state = "resumed"]
    /\ UNCHANGED <<raw, schema, api, pc, text, parsed, caught, outcome, promise,
                   running, cliVars>>

NextCalls ==
    \/ \E i \in TaskIds : Invoke(i)
    \/ Next
    \/ Return
    \/ \E i \in TaskIds : Resume(i)

SpecCalls == InitCalls /\ [][NextCalls]_vars

(***************************************************************************)
(* Properties                                                              *)
(***************************************************************************)
Done == pc = "done"

IsScalar(v) == v.t \in {"null", "true", "false", "number", "string"}

NoBrace(t) == Count(t, "{") = 0 /\ Count(t, "[") = 0

IsBlank(t) == \A i \in 1..Len(t) : IsSpace(t[i])

\* same kind, same keys, same number of elements
SameShape(x, y) == x.t = y.t /\ x.keys = y.keys /\ Len(x.kids) = Len(y.kids)

\* the runs of 1..MaxCut closing delimiters
CloserRuns == UNION {[1..n -> {"}", "]"}] : n \in 1..MaxCut}

\* the contents of the complete double-quoted literals of t, left to right
RECURSIVE StringLiteralsFrom(_, _)
StringLiteralsFrom(t, i) ==
    IF i > Len(t) THEN {}
    ELSE IF t[i] # "\"" THEN StringLiteralsFrom(t, i + 1)
    ELSE LET r == ParseStringFrom(t, i + 1, <<>>) IN
         IF r.ok THEN {r.v.s} \cup StringLiteralsFrom(t, r.next)
         ELSE StringLiteralsFrom(t, i + 1)

StringLiterals(t) == StringLiteralsFrom(t, 1)

\* the string values of v (member values and elements, not keys)
RECURSIVE StringValues(_)
StringValues(v) ==
    IF v.t = "string" THEN {v.s}
    ELSE UNION {StringValues(v.kids[i]) : i \in 1..Len(v.kids)}

Includes(msg, part) == \E i \in 1..Len(msg) : msg[i] = part

\* C1: for every text the strict parser accepts, a call without a schema
\* returns exactly the value JSON.parse gives for that text.
C1_ValidTextUnchanged ==
    (Done /\ schema = "none" /\ JsonParse(raw).ok)
        => outcome = Returned(JsonParse(raw).v)

\* a valid object text that the rewrites would change has been returned
C1_Witness ==
    /\ Done /\ schema = "none" /\ outcome.kind = "value"
    /\ JsonParse(raw).ok /\ JsonParse(raw).v.t = "object"
    /\ RepairText(raw) # raw

\* C2: a valid object or array text cut short by its last n >= 1 closing
\* delimiters is repaired to a value of the same top-level shape.
C2_TruncationRoundTrip ==
    (Done /\ schema = "none")
        => \A c \in CloserRuns :
              JsonParse(raw \o c).ok
                  => /\ outcome.kind = "value"
                     /\ SameShape(outcome.value, JsonParse(raw \o c).v)

\* C3: a fenced object literal with bare keys, scalar values and a trailing
\* comma is returned as the object mapping each key to its value.
C3_FencedLiteral ==
    (Done /\ schema = "none" /\ IsTicks(raw, 1))
        => \A c \in FencedLiterals : c.text = raw => outcome = Returned(c.want)

\* the fenced literal of the documentation has been returned as an object
C3_Witness ==
    /\ Done /\ schema = "none" /\ raw = ScenarioA
    /\ outcome.kind = "value"
    /\ outcome.value.keys = << <<"n", "a", "m", "e">>, <<"a", "g", "e">> >>

\* C4: when a text that needed repair yields a value, every string value of
\* the result has the content of a double-quoted literal of the input: no
\* rewrite has touched the inside of a literal.
C4_LiteralsUntouched ==
    (Done /\ ~JsonParse(raw).ok /\ outcome.kind = "value")
        => StringValues(outcome.value) \subseteq StringLiterals(raw)

\* C5: every failure, thrown by ensureJson or carried by the rejected promise
\* of ensureJsonAsync, holds the caller's text as raw.
C5_FailureKeepsRaw ==
    /\ outcome.kind = "error" => outcome.raw = raw
    /\ promise = "rejected" => (outcome.kind = "error" /\ outcome.raw = raw)

\* a promise was rejected after the rewrites had changed the text
C5_Witness ==
    /\ Done /\ promise = "rejected" /\ outcome.message = RepairMessage
    /\ text # raw /\ Len(text) > 0

\* C6: when the schema rejects the parsed value, the caller receives the
\* validator's own error, not a JsonFixError.
C6_ValidatorErrorSurfaces ==
    (Done /\ schema # "none" /\ parsed # NoValue
          /\ ~SafeParse(schema, parsed).success)
        => (outcome.kind = "error" /\ outcome.name = "ZodError")

\* C7 as stated: every text without { and [ fails with a JsonFixError.
C7_NoBraceAlwaysFails ==
    (Done /\ NoBrace(raw))
        => (outcome.kind = "error" /\ outcome.name = "JsonFixError")

\* C7 as amended: for a text without { and [, a value is returned only when
\* the text, or the text the repair rewrites make of it, is a JSON scalar
\* text; the value is then a scalar, and every other such text fails with a
\* JsonFixError.
C7_NoBraceScalarOrFailure ==
    (Done /\ NoBrace(raw))
        => LET scalar == JsonParse(raw).ok \/ JsonParse(RepairText(raw)).ok
           IN /\ outcome.kind = "value" => (scalar /\ IsScalar(outcome.value))
              /\ ~scalar => outcome = JsonFixError(RepairMessage, raw)
              /\ (scalar /\ schema = "none") => outcome.kind = "value"

\* a fenced scalar, which the strict parser rejects as given, was returned
C7_Witness ==
    /\ Done /\ NoBrace(raw) /\ ~JsonParse(raw).ok
    /\ outcome.kind = "value" /\ IsTicks(raw, 1)

\* C8: the empty text and every whitespace-only text fail with a JsonFixError
\* whose raw is that text; no value is returned.
C8_BlankTextFails ==
    (Done /\ IsBlank(raw))
        => /\ outcome.kind = "error" /\ outcome.name = "JsonFixError"
           /\ outcome.raw = raw /\ outcome.value = NoValue

\* a text of several whitespace characters has failed
C8_Witness ==
    Done /\ IsBlank(raw) /\ Len(raw) >= 2 /\ outcome.kind = "error"

\* C9: when the parse of the repaired text fails, the message of the failure
\* includes the parser's diagnostic.
C9_MessageHasDiagnostic ==
    (Done /\ caught # 0) => Includes(outcome.message, Diagnostic(caught))

\* the statements of a call that has not ended; each has its action, which
\* is enabled whatever the text is
Steps ==
    {"parse", "fence", "slice", "commas", "squote", "barekeys", "balance",
     "reparse", "validate"}

MixedQuotesValue ==
    MkObject(<<<<"n", "a", "m", "e">>, <<"a", "g", "e">>, <<"c", "i", "t", "y">>>>,
             <<MkScalar("string", <<"D", "i", "a", "n", "a">>),
               MkScalar("number", <<"2", "8">>),
               MkScalar("string", <<"L", "o", "n", "d", "o", "n">>)>>)

\* C11: the object literal that mixes a bare key, a single-quoted key, a
\* double-quoted key and single-quoted string values is repaired: the call
\* returns the object, with the single-quoted values as strings, and does not
\* throw.
C11_MixedQuotesRepaired ==
    (Done /\ schema = "none" /\ raw = MixedQuotes)
        => outcome = Returned(MixedQuotesValue)

HasOpener(t) == ~NoBrace(t)

\* C12: for every prefix without a brace or bracket and every valid JSON
\* object or array text, the call on the prefix followed by the text returns
\* what JSON.parse gives for the text alone.
C12_LeadingProseDiscarded ==
    (Done /\ schema = "none" /\ HasOpener(raw)
          /\ JsonParse(SliceToFirstBrace(raw)).ok)
        => outcome = Returned(JsonParse(SliceToFirstBrace(raw)).v)

EndsWith(t, e) ==
    Len(t) >= Len(e) /\ Slice(t, Len(t) - Len(e) + 1, Len(t)) = e

\* the text before the trailing prose
BeforeProse(t) == Slice(t, 1, Len(t) - Len(TrailingProse))

\* C13: a valid object or array text followed by trailing prose yields the
\* value of the object or array; the call does not throw.
C13_TrailingProseDiscarded ==
    (Done /\ schema = "none" /\ EndsWith(raw, TrailingProse)
          /\ CharAt(raw, 1) \in {"{", "["} /\ JsonParse(BeforeProse(raw)).ok)
        => outcome = Returned(JsonParse(BeforeProse(raw)).v)

\* t[i..] read as complete JSON values with white space between them: how
\* many there are, and whether the first is an object or array
RECURSIVE ValuesFrom(_, _)
ValuesFrom(t, i) ==
    LET r == ParseValue(t, i) IN
    IF ~r.ok THEN [ok |-> FALSE, n |-> 0]
    ELSE IF r.next > Len(t) THEN [ok |-> TRUE, n |-> 1]
    ELSE IF ~IsJsonWs(t[r.next]) THEN [ok |-> FALSE, n |-> 0]
    ELSE LET j == SkipJsonWs(t, r.next) IN
         IF j > Len(t) THEN [ok |-> TRUE, n |-> 1]
         ELSE LET rest == ValuesFrom(t, j) IN
              [ok |-> rest.ok, n |-> rest.n + 1]

ManyValues(t) ==
    LET vs == ValuesFrom(t, SkipJsonWs(t, 1)) IN vs.ok /\ vs.n >= 2

\* C14: an input of two or more complete top-level JSON values separated by
\* white space fails with the repair failure; no value is returned for it.
C14_ManyValuesFail ==
    (Done /\ ManyValues(raw)) => outcome = JsonFixError(RepairMessage, raw)

\* C15: the promise ensureJsonAsync returns is fulfilled with the value
\* ensureJson returns for the same arguments, or rejected with the failure
\* ensureJson throws for them (same message, same raw); a promise is returned
\* in every case, nothing is thrown synchronously.
C15_AsyncMatchesSync ==
    /\ (Done /\ api = "ensureJson") =>
            (outcome = EnsureJson(raw, schema) /\ promise = "none")
    /\ api = "ensureJsonAsync" =>
          /\ promise \in {"pending", "fulfilled", "rejected"}
          /\ Done =>
                /\ outcome = EnsureJson(raw, schema)
                /\ promise = IF outcome.kind = "value" THEN "fulfilled"
                             ELSE "rejected"

\* the promise of an async call has been rejected with a schema failure that
\* holds the raw text, after a repair
C15_Witness ==
    /\ Done /\ api = "ensureJsonAsync" /\ promise = "rejected"
    /\ outcome = JsonFixError(SchemaMessage, raw) /\ ~JsonParse(raw).ok

Exited == cliPc = "exited"

\* C16: in a run without --help the process exits at most once and nothing
\* is written before it does; when it has exited, either the pipeline
\* returned a value, the pretty-printed value (which reads back as that
\* value) is the one thing on standard output, standard error is empty and
\* the code is 0, or reading or the pipeline failed, one message is on
\* standard error, standard output is empty and the code is 1.
C16_OneOutcomeOneExit ==
    ~HasHelp(argv) =>
        /\ Len(exits) <= 1
        /\ ~Exited => (exits = <<>> /\ stdout = <<>> /\ stderr = <<>>)
        /\ Exited =>
              \/ /\ calls = 1 /\ outcome.kind = "value"
                 /\ stdout = <<Stringify(outcome.value, 0) \o <<"\n">>>>
                 /\ JsonParse(stdout[1]).ok
                 /\ JsonParse(stdout[1]).v = outcome.value
                 /\ stderr = <<>>
                 /\ exits = <<0>>
              \/ /\ \/ calls = 0 /\ outcome = Pending
                    \/ calls = 1 /\ outcome.kind = "error"
                 /\ stdout = <<>>
                 /\ Len(stderr) = 1
                 /\ exits = <<1>>

\* a text that arrived in two chunks and needed repair has been printed as an
\* object
C16_Witness ==
    /\ Exited /\ ~HasHelp(argv) /\ exits = <<0>> /\ Len(stdout) = 1
    /\ outcome.kind = "value" /\ outcome.value.t = "object"
    /\ ~JsonParse(input).ok /\ input \notin ChunkTexts

\* C17: with --help among the arguments the process prints the usage text and
\* exits with 0 while standard input has no listener and the pipeline has
\* not been called; it does nothing else.
C17_HelpBeforeAnything ==
    HasHelp(argv) =>
        /\ listeners = {} /\ calls = 0 /\ outcome = Pending
        /\ data = <<>> /\ stderr = <<>>
        /\ cliPc \in {"main", "exited"}
        /\ cliPc = "main" => (stdout = <<>> /\ exits = <<>>)
        /\ Exited => (stdout = <<Usage>> /\ exits = <<0>>)

\* the process has exited on --help with chunks waiting on standard input
C17_Witness ==
    /\ HasHelp(argv) /\ Exited /\ stdout = <<Usage>>
    /\ Len(stdin) > 1 /\ Head(stdin).ev = "data"

\* k copies of the character c
Repeat(c, k) == [i \in 1..k |-> c]

\* how many more o than c the text t holds; 0 if not more
Excess(t, o, c) ==
    IF Count(t, o) > Count(t, c) THEN Count(t, o) - Count(t, c) ELSE 0

\* C18: the balancer appends one closer per unmatched opener: k closing
\* braces when the text holds k >= 1 more opening than closing braces, and m
\* closing brackets when it holds m >= 1 more opening than closing brackets.
C18_OneCloserPerOpener ==
    [][pc = "balance" =>
          /\ Count(text', "}") = Count(text, "}") + Excess(text, "{", "}")
          /\ Count(text', "]") = Count(text, "]") + Excess(text, "[", "]")]_vars

\* the openers of t[i..] outside string literals that nothing closes, in
\* order, after the openers in stack; <<"bad">> when a closer matches nothing
\* or a string literal does not end
RECURSIVE UnclosedFrom(_, _, _)
UnclosedFrom(t, i, stack) ==
    IF i > Len(t) THEN stack
    ELSE IF t[i] = "\"" THEN
         LET r == ParseStringFrom(t, i + 1, <<>>) IN
         IF r.ok THEN UnclosedFrom(t, r.next, stack) ELSE <<"bad">>
    ELSE IF t[i] \in {"{", "["} THEN UnclosedFrom(t, i + 1, Append(stack, t[i]))
    ELSE IF t[i] \in {"}", "]"} THEN
         IF /\ stack # <<>>
            /\ stack[Len(stack)] = (IF t[i] = "}" THEN "{" ELSE "[")
         THEN UnclosedFrom(t, i + 1, SubSeq(stack, 1, Len(stack) - 1))
         ELSE <<"bad">>
    ELSE UnclosedFrom(t, i + 1, stack)

Unclosed(t) == UnclosedFrom(t, 1, <<>>)

\* C19: the closers appended are in the reverse order of the unmatched
\* openers: a text whose unclosed openers are a brace and then a bracket gets
\* the suffix bracket, brace.
C19_ClosersInReverseOrder ==
    [][(pc = "balance" /\ Unclosed(text) = <<"{", "[">>)
          => text' = text \o <<"]", "}">>]_vars

\* C20: delimiters inside string literals are not counted: a text whose
\* delimiters outside strings are balanced gets nothing appended, and a text
\* whose only unclosed opener outside strings is a brace gets one closing
\* brace and nothing else.
C20_StringsNotCounted ==
    [][pc = "balance" =>
          /\ Unclosed(text) = <<>> => text' = text
          /\ Unclosed(text) = <<"{">> => text' = Append(text, "}")]_vars

Delimiters == {"{", "}", "[", "]"}

\* C21: the three rewrites of the normalizer (trailing commas, single-quoted
\* keys, bare keys) each leave the number of every brace and bracket
\* character as it was, so the counts after them equal the counts before.
C21_NormalizerKeepsDelimiters ==
    [][(pc \in {"commas", "squote", "barekeys"})
          => (\A c \in Delimiters : Count(text', c) = Count(text, c))]_vars

\* the three rewrites have run on a text with braces and brackets and have
\* changed its length
C21_Witness ==
    /\ pc = "balance"
    /\ Count(text, "{") > 0 /\ Count(text, "]") > 0
    /\ Len(text) # Len(SliceToFirstBrace(StripFences(raw)))

\* C22: the textual repair steps are idempotent: applying them to their own
\* output and parsing gives the same outcome, the same value or a failure in
\* both cases, as applying them once and parsing.
C22_RewritesIdempotent ==
    pc = "reparse" =>
        LET once == JsonParse(text)
            twice == JsonParse(RepairText(text))
        IN once.ok = twice.ok /\ once.v = twice.v

\* t holds a fence marker, three fence characters in a row
HasFence(t) == \E i \in 1..Len(t) : IsTicks(t, i)

\* t holds no double quote, so no fence character of t is inside a string
NoStrings(t) == Count(t, "\"") = 0

\* C23: the fence step removes every fence marker wherever it stands, so no
\* marker is left in its output (stated for texts without string literals),
\* and it returns a text without markers unchanged.
C23_EveryFenceRemoved ==
    [][pc = "fence" =>
          /\ NoStrings(text) => ~HasFence(text')
          /\ ~HasFence(text) => text' = text]_vars

\* C24 as first stated: once an attempt of the strict parser fails, on raw or
\* on the repaired text, no rewrite and no other attempt follows and the call
\* ends with the repair failure.
C24_AnyParseFailureEndsCall ==
    [][(\/ pc = "parse" /\ ~JsonParse(raw).ok
        \/ pc = "reparse" /\ ~JsonParse(text).ok)
          => /\ pc' = "done"
             /\ text' = text
             /\ outcome' = JsonFixError(RepairMessage, raw)]_vars

\* C24, amended: a failed parse of raw starts the one repair pass; once the
\* parse of the repaired text fails, the call ends at that step with the
\* repair failure and the text and the parsed value are left as they are;
\* a call that has ended, with a failure or a value, takes no further step.
C24_RepairedParseFailureEndsCall ==
    [][/\ (pc = "parse" /\ ~JsonParse(raw).ok)
            => (pc' = "fence" /\ text' = raw /\ outcome' = Pending)
       /\ (pc = "reparse" /\ ~JsonParse(text).ok)
            => /\ pc' = "done"
               /\ text' = text /\ parsed' = parsed
               /\ outcome' = JsonFixError(RepairMessage, raw)
       /\ ~Done]_vars

\* a call has ended with the repair failure after the rewrites changed the
\* text
C24_Witness ==
    /\ Done /\ outcome = JsonFixError(RepairMessage, raw)
    /\ caught # 0 /\ text # raw /\ parsed = NoValue

HasReturned(i) == tasks[i].state \in {"awaiting", "resumed"}

\* C25: calls are independent: whatever calls were made before it, each call
\* gives its caller the outcome the same arguments give alone, and the call
\* that is executing works on its own caller's arguments.
C25_CallsIndependent ==
    /\ \A i \in DOMAIN tasks :
          HasReturned(i) =>
              tasks[i].outcome = EnsureJson(tasks[i].raw, tasks[i].schema)
    /\ running \in DOMAIN tasks =>
          /\ raw = tasks[running].raw
          /\ schema = tasks[running].schema
          /\ api = tasks[running].api

\* two callers with different arguments have both got their results, a
\* failure and a value
C25_Witness ==
    /\ DOMAIN tasks = TaskIds
    /\ \A i \in TaskIds : tasks[i].state = "resumed"
    /\ tasks["t1"].api = "ensureJsonAsync" /\ tasks["t2"].api = "ensureJsonAsync"
    /\ tasks["t1"].outcome.kind = "error" /\ tasks["t2"].outcome.kind = "value"

\* C26: ensureJsonAsync does not suspend: the promise it returns is settled
\* and its outcome fixed when the call returns, a call is executing exactly
\* while its statements run, and while they run no other caller moves.
C26_AsyncDoesNotSuspend ==
    /\ [](\A i \in DOMAIN tasks :
             (tasks[i].api = "ensureJsonAsync" /\ HasReturned(i)) =>
                 /\ tasks[i].promise \in {"fulfilled", "rejected"}
                 /\ tasks[i].outcome.kind \in {"value", "error"})
    /\ []((running = "none") <=> (pc = "idle"))
    /\ [][(pc \in Steps) =>
             (tasks' = tasks /\ running' = running /\ pc' \in Steps \cup {"done"})]_vars

\* an async call has returned a rejected promise before the other caller has
\* called
C26_Witness ==
    /\ DOMAIN tasks = TaskIds
    /\ tasks["t1"].state = "awaiting" /\ tasks["t1"].promise = "rejected"
    /\ tasks["t1"].outcome.kind = "error"
    /\ tasks["t2"].state = "ready"

\* C27: the value a call returns is the parsed value itself when no schema is
\* given and the schema's output for the parsed value when a schema accepts
\* it, the parsed value being that of the raw text when it parses and that of
\* the repaired text otherwise; the schema is applied alike on both paths.
C27_ReturnsParsedOrSchemaData ==
    (Done /\ outcome.kind = "value") =>
        /\ parsed # NoValue
        /\ parsed = IF JsonParse(raw).ok THEN JsonParse(raw).v
                    ELSE JsonParse(RepairText(raw)).v
        /\ schema = "none" => outcome.value = parsed
        /\ schema # "none" =>
              /\ SafeParse(schema, parsed).success
              /\ outcome.value = SafeParse(schema, parsed).data

\* a repaired text parsed to an object that the schema returned without its
\* other keys
C27_Witness ==
    /\ Done /\ outcome.kind = "value"
    /\ schema = "hasB"
    /\ ~JsonParse(raw).ok
    /\ outcome.value # parsed
    /\ outcome.value = SafeParse(schema, parsed).data

\* the chunks of the events of q, one after the other
RECURSIVE ChunksOf(_)
ChunksOf(q) == IF q = <<>> THEN <<>> ELSE Head(q).chunk \o ChunksOf(Tail(q))

\* C28: the process calls the pipeline at most once, after standard input
\* has signalled end and with nothing yet on standard output; the text it
\* passes is what the chunks received make one after the other in arrival
\* order: what has been collected followed by what is still to arrive never
\* changes, and at the call nothing is still to arrive.
C28_OneCallOnAllOfStdin ==
    /\ [](calls <= 1)
    /\ [](calls = 1 =>
             (stdin = <<>> /\ raw = input /\ input = data /\ schema = "none"))
    /\ [][data' \o ChunksOf(stdin') = data \o ChunksOf(stdin)]_vars
    /\ [][(calls' # calls) =>
             /\ calls = 0 /\ calls' = 1
             /\ cliPc = "resolved" /\ stdin = <<>>
             /\ stdout = <<>>]_vars
    /\ [][(cliPc' = "resolved" /\ cliPc # "resolved") =>
             /\ stdin # <<>> /\ Head(stdin).ev = "end"
             /\ input' = data]_vars

\* the pipeline was called with two different chunks joined in the order
\* they arrived, and the process has exited
C28_Witness ==
    /\ Exited /\ calls = 1 /\ stdin = <<>>
    /\ \E c1, c2 \in ChunkTexts :
          c1 # c2 /\ c1 \o c2 # c2 \o c1 /\ raw = c1 \o c2 /\ data = c1 \o c2

BeforeBalance(t) ==
    QuoteBareKeys(QuoteSingleKeys(RemoveTrailingCommas(
        SliceToFirstBrace(StripFences(t)))))

\* what the balancing step adds for the delimiters o and c of the text t
Closer(t, o, c) == IF Count(t, o) = Count(t, c) + 1 THEN <<c>> ELSE <<>>

====
